---- MODULE Spec2Model ----
(***************************************************************************)
(* mdsite: frontmatter splitting (markdown.rs), batch frontmatter loading  *)
(* (file_scan.rs) and markdown-to-html conversion with table of contents   *)
(* (md_parser.rs).                                                         *)
(*                                                                         *)
(* A Rust &str / String is a sequence of one-character strings; offsets    *)
(* are 0-based as in Rust (Slice(s, a, b) is &s[a..b]).                    *)
(***************************************************************************)
EXTENDS Integers, Sequences, FiniteSets, TLC

VARIABLES
    markdown,     \* split_markdown: the input text
    front,        \* split_markdown: the returned Frontmatter
    body,         \* split_markdown: the returned body
    decoded,      \* result of the last parse call on front
    spc,          \* position of the split/parse caller
    files,        \* load_frontmatter: the input Vec<MarkdownPath> (with file contents)
    loaded,       \* load_frontmatter: MarkdownData collected so far
    lix,          \* load_frontmatter: number of files consumed by the iterator
    lres,         \* load_frontmatter: "running", "Ok" or "Err"
    headings,     \* generate_toc_html: the headings argument
    max_depth,    \* generate_toc_html: the max_depth argument
    html,         \* generate_toc_html: the output string, as a sequence of pieces
    indent,       \* generate_toc_html: the indent local
    hix,          \* generate_toc_html: number of headings consumed by the loop
    tpc,          \* generate_toc_html: "loop" or "done"
    parsed,       \* markdown_to_html: the events the parser yields
    events,       \* markdown_to_html: the events vector
    enable_toc,   \* markdown_to_html: the enable_toc flag
    toc,          \* markdown_to_html: ParseResult.toc
    md_headings,  \* markdown_to_html: the headings fix_headings returned
    mpc,          \* markdown_to_html: "map" or "done"
    fin,          \* fix_headings: the events slice as passed in
    fevents,      \* fix_headings: the events slice
    fstate,       \* fix_headings: the state local
    fheadings,    \* fix_headings: the headings vector
    fix,          \* fix_headings: index of the running loop
    fpc,          \* fix_headings: "scan", "rewrite" or "done"
    sin,          \* slugify: the input string
    sacc,         \* slugify: the slug built so far and prev_is_dash
    six,          \* slugify: number of characters consumed
    sout,         \* slugify: the returned string
    slpc,         \* slugify: "push" or "done"
    wdata,        \* write_markdown: the data argument, a table of string fields
    wcontent,     \* write_markdown: the content argument
    wdoc,         \* write_markdown: the bytes written
    wfront,       \* the Frontmatter split_markdown returns for wdoc
    wbody,        \* the body split_markdown returns for wdoc
    wdecoded,     \* result of parse_frontmatter on wfront
    wpc,          \* "write", "written", "split", "parsed" or "idle"
    rvars,        \* Renderer: the vars dict
    rlog,         \* the calls that wrote the dict so far, oldest first
    rop,          \* the method called last
    rarg,         \* render / write_page_html: the map the caller passed
    rdoc,         \* write_page_html: the parsed events of the markdown argument
    rdata,        \* render: the data handed to the template engine
    rcount        \* number of calls made on the renderer

splitVars == <<markdown, front, body, decoded, spc>>
loadVars == <<files, loaded, lix, lres>>
tocVars == <<headings, max_depth, html, indent, hix, tpc>>
mdVars == <<parsed, events, enable_toc, toc, md_headings, mpc>>
fixVars == <<fin, fevents, fstate, fheadings, fix, fpc>>
slugVars == <<sin, sacc, six, sout, slpc>>
roundVars == <<wdata, wcontent, wdoc, wfront, wbody, wdecoded, wpc>>
renderVars == <<rvars, rlog, rop, rarg, rdoc, rdata, rcount>>
vars == <<splitVars, loadVars, tocVars, mdVars, fixVars, slugVars, roundVars, renderVars>>

(***************************************************************************)
(* Strings                                                                 *)
(***************************************************************************)
\* Bound: number of pieces a document text is put together from
MaxPieces == 5

\* std: Option<usize>::None of str::find
NoneIx == -1

\* &s[a..b]
Slice(s, a, b) == SubSeq(s, a + 1, b)

\* &s[a..]
SliceFrom(s, a) == SubSeq(s, a + 1, Len(s))

\* str::starts_with
StartsWith(s, p) == Len(s) >= Len(p) /\ SubSeq(s, 1, Len(p)) = p

\* the offsets at which pattern p occurs in s
Occurrences(s, p) == {i \in 0..(Len(s) - Len(p)) : Slice(s, i, i + Len(p)) = p}

\* str::find: offset of the first occurrence, or None
Find(s, p) ==
    LET occ == Occurrences(s, p)
    IN  IF occ = {} THEN NoneIx ELSE CHOOSE i \in occ : \A j \in occ : i <= j

\* str::contains
Contains(s, p) == Occurrences(s, p) # {}

\* char::is_whitespace, over the characters of the model
IsWhitespace(c) == c \in {" ", "\n", "\t"}

\* str::trim: leading and trailing whitespace removed
Trim(s) ==
    LET keep == {i \in 1..Len(s) : ~IsWhitespace(s[i])}
    IN  IF keep = {} THEN <<>>
        ELSE LET lo == CHOOSE i \in keep : \A j \in keep : i <= j
                 hi == CHOOSE i \in keep : \A j \in keep : i >= j
             IN  SubSeq(s, lo, hi)

RECURSIVE Concat(_)
\* concatenation of a sequence of strings
Concat(ss) == IF ss = <<>> THEN <<>> ELSE Head(ss) \o Concat(Tail(ss))

\* all sequences of at most n elements of S
SeqsUpTo(S, n) == UNION {[1..k -> S] : k \in 0..n}

(***************************************************************************)
(* markdown.rs: frontmatter                                                *)
(***************************************************************************)
TOML_START == <<"+", "+", "+", "\n">>
TOML_END == <<"\n", "+", "+", "+", "\n">>
YAML_START == <<"-", "-", "-", "\n">>
YAML_END == <<"\n", "-", "-", "-", "\n">>

\* enum Frontmatter
Toml(buf) == [kind |-> "Toml", buf |-> buf]
Yaml(buf) == [kind |-> "Yaml", buf |-> buf]
Empty == [kind |-> "Empty", buf |-> <<>>]

\* variant: the search for the end tag starts after the whole start tag
remove_frontmatter_search_after_marker(md, start, end) ==
    IF StartsWith(md, start)
    THEN LET rest == SliceFrom(md, Len(start))
             end_ix == Find(rest, end)
         IN  IF end_ix # NoneIx
             THEN <<Trim(Slice(rest, 0, end_ix)), Trim(SliceFrom(rest, end_ix + Len(end)))>>
             ELSE <<<<>>, md>>
    ELSE <<<<>>, md>>

\* variant: neither part is trimmed
remove_frontmatter_untrimmed(md, start, end) ==
    IF StartsWith(md, start)
    THEN LET rest == SliceFrom(md, Len(start) - 1)
             end_ix == Find(rest, end)
         IN  IF end_ix # NoneIx
             THEN <<Slice(rest, 1, end_ix), SliceFrom(rest, end_ix + Len(end))>>
             ELSE <<<<>>, md>>
    ELSE <<<<>>, md>>

\* variant: without an end tag the start tag is cut from the text
remove_frontmatter_drops_marker(md, start, end) ==
    IF StartsWith(md, start)
    THEN LET rest == SliceFrom(md, Len(start) - 1)
             end_ix == Find(rest, end)
         IN  IF end_ix # NoneIx
             THEN <<Trim(Slice(rest, 0, end_ix)), Trim(SliceFrom(rest, end_ix + Len(end)))>>
             ELSE <<<<>>, SliceFrom(md, Len(start))>>
    ELSE <<<<>>, md>>

\* fn remove_frontmatter: <<front, back>>
remove_frontmatter(md, start, end) ==
    IF StartsWith(md, start)
    THEN \* to allow "+++\n+++\n" for empty frontmatter, the search starts at the
         \* newline of the start tag
         LET rest == SliceFrom(md, Len(start) - 1)
             end_ix == Find(rest, end)
         IN  IF end_ix # NoneIx
             THEN <<Trim(Slice(rest, 0, end_ix)), Trim(SliceFrom(rest, end_ix + Len(end)))>>
             ELSE <<<<>>, md>>
    ELSE <<<<>>, md>>

\* variant: the start tags are matched without their newline
split_markdown_prefix_without_newline(md) ==
    IF StartsWith(md, <<"+", "+", "+">>)
    THEN LET fb == remove_frontmatter(md, <<"+", "+", "+">>, TOML_END)
         IN  <<IF fb[1] # <<>> THEN Toml(fb[1]) ELSE Empty, fb[2]>>
    ELSE IF StartsWith(md, <<"-", "-", "-">>)
    THEN LET fb == remove_frontmatter(md, <<"-", "-", "-">>, YAML_END)
         IN  <<IF fb[1] # <<>> THEN Yaml(fb[1]) ELSE Empty, fb[2]>>
    ELSE <<Empty, md>>

\* variant: a blank block returns the original text
split_markdown_keeps_text_when_empty(md) ==
    IF StartsWith(md, TOML_START)
    THEN LET fb == remove_frontmatter(md, TOML_START, TOML_END)
         IN  IF fb[1] # <<>> THEN <<Toml(fb[1]), fb[2]>> ELSE <<Empty, md>>
    ELSE IF StartsWith(md, YAML_START)
    THEN LET fb == remove_frontmatter(md, YAML_START, YAML_END)
         IN  IF fb[1] # <<>> THEN <<Yaml(fb[1]), fb[2]>> ELSE <<Empty, md>>
    ELSE <<Empty, md>>

\* fn split_markdown: <<Frontmatter, body>>
split_markdown(md) ==
    IF StartsWith(md, TOML_START)
    THEN LET fb == remove_frontmatter(md, TOML_START, TOML_END)
         IN  <<IF fb[1] # <<>> THEN Toml(fb[1]) ELSE Empty, fb[2]>>
    ELSE IF StartsWith(md, YAML_START)
    THEN LET fb == remove_frontmatter(md, YAML_START, YAML_END)
         IN  <<IF fb[1] # <<>> THEN Yaml(fb[1]) ELSE Empty, fb[2]>>
    ELSE <<Empty, md>>

\* Result<T>: Ok(value) or Err(Error::FrontmatterParse(msg)); a decoded value is
\* represented by the payload it was decoded from
Ok(value) == [tag |-> "Ok", error |-> "none", msg |-> "", value |-> value]
ErrFrontmatterParse(msg) == [tag |-> "Err", error |-> "FrontmatterParse", msg |-> msg, value |-> <<>>]

\* What the toml / serde_yaml decoder makes of a payload for the requested type:
\* a table that deserializes, a value that is no table, or a decode error
DecodeOutcomes == {"table", "value", "error"}

\* fn Frontmatter::parse
parse(f, d) ==
    CASE f.kind = "Toml" ->
            IF d = "error" THEN ErrFrontmatterParse("decoder") ELSE Ok(f.buf)
      [] f.kind = "Yaml" ->
            IF d = "error" THEN ErrFrontmatterParse("decoder") ELSE Ok(f.buf)
      [] f.kind = "Empty" -> ErrFrontmatterParse("no content")

\* variant: Empty decodes to a default value
parse_frontmatter_empty_is_default(f, d) ==
    CASE f.kind = "Toml" ->
            IF d = "error" THEN ErrFrontmatterParse("decoder") ELSE Ok(f.buf)
      [] f.kind = "Yaml" ->
            IF d = "error" THEN ErrFrontmatterParse("decoder") ELSE Ok(f.buf)
      [] f.kind = "Empty" -> Ok(<<>>)

\* fn parse_frontmatter
parse_frontmatter(f, d) ==
    CASE f.kind = "Toml" ->
            IF d = "error" THEN ErrFrontmatterParse("decoder") ELSE Ok(f.buf)
      [] f.kind = "Yaml" ->
            IF d = "error" THEN ErrFrontmatterParse("decoder") ELSE Ok(f.buf)
      [] f.kind = "Empty" -> ErrFrontmatterParse("markdown file is missing header")

\* fn parse_frontmatter_to_map
parse_frontmatter_to_map(f, d) ==
    CASE f.kind = "Toml" ->
            IF d = "error" THEN ErrFrontmatterParse("decoder")
            ELSE IF d = "table" THEN Ok(f.buf)
            ELSE ErrFrontmatterParse("Expected toml values")
      [] f.kind = "Yaml" ->
            IF d = "error" THEN ErrFrontmatterParse("decoder") ELSE Ok(f.buf)
      [] f.kind = "Empty" -> ErrFrontmatterParse("markdown file is missing header")

\* The texts split_markdown is called with: at most MaxPieces pieces, each a
\* marker line, a marker character, whitespace or a letter
TextPieces ==
    {TOML_START, TOML_END, YAML_START, YAML_END, <<"+">>, <<"\n">>, <<" ">>, <<"x">>}

Texts(n) == {Concat(ps) : ps \in SeqsUpTo(TextPieces, n)}

NoResult == [tag |-> "None", error |-> "none", msg |-> "", value |-> <<>>]
NoCall == [fn |-> "none", res |-> NoResult]

SplitIdle ==
    /\ markdown = <<>>
    /\ front = Empty
    /\ body = <<>>
    /\ decoded = NoCall
    /\ spc = "idle"

\* a caller holds a text
SplitInit ==
    /\ markdown \in Texts(MaxPieces)
    /\ front = Empty
    /\ body = <<>>
    /\ decoded = NoCall
    /\ spc = "start"

\* let (front, body) = split_markdown(markdown)
SplitMarkdown ==
    /\ spc = "start"
    /\ LET r == split_markdown(markdown)
       IN  /\ front' = r[1]
           /\ body' = r[2]
    /\ spc' = "split"
    /\ UNCHANGED <<markdown, decoded>>

\* front.parse::<T>()
Parse ==
    /\ spc = "split"
    /\ \E d \in DecodeOutcomes :
          decoded' = [fn |-> "parse", res |-> parse(front, d)]
    /\ spc' = "parsed"
    /\ UNCHANGED <<markdown, front, body>>

\* parse_frontmatter::<T>(front)
ParseFrontmatter ==
    /\ spc = "split"
    /\ \E d \in DecodeOutcomes :
          decoded' = [fn |-> "parse_frontmatter", res |-> parse_frontmatter(front, d)]
    /\ spc' = "parsed"
    /\ UNCHANGED <<markdown, front, body>>

\* parse_frontmatter_to_map(front)
ParseFrontmatterToMap ==
    /\ spc = "split"
    /\ \E d \in DecodeOutcomes :
          decoded' = [fn |-> "parse_frontmatter_to_map",
                      res |-> parse_frontmatter_to_map(front, d)]
    /\ spc' = "parsed"
    /\ UNCHANGED <<markdown, front, body>>


(***************************************************************************)
(* file_scan.rs: load_frontmatter                                          *)
(***************************************************************************)
\* Bound: number of files handed to load_frontmatter
MaxFiles == 2

\* struct MarkdownPath, with what read_to_string and the decoder make of the file
MarkdownPath(rel, readable, text, d) ==
    [path |-> <<"content">> \o rel, rel_path |-> rel, readable |-> readable,
     text |-> text, decode |-> d]

\* struct MarkdownData
MarkdownData(path, rel, fm) == [path |-> path, rel_path |-> rel, frontmatter |-> fm]

\* Result of the closure: Ok(MarkdownData) or the io::Error of read_to_string
OkData(data) == [tag |-> "Ok", data |-> data]
ErrIo == [tag |-> "Err", data |-> MarkdownData(<<>>, <<>>, NoResult)]

\* variant: the decode result is propagated with `?` like the read error
load_frontmatter_closure_propagates_decode_error(mdp) ==
    IF ~mdp.readable THEN ErrIo
    ELSE LET fm == parse_frontmatter(split_markdown(mdp.text)[1], mdp.decode)
         IN  IF fm.tag = "Err" THEN ErrIo
             ELSE OkData(MarkdownData(mdp.path, mdp.rel_path, fm))

\* the closure load_frontmatter maps over files
load_frontmatter_closure(mdp) ==
    IF ~mdp.readable THEN ErrIo
    ELSE LET fm == parse_frontmatter(split_markdown(mdp.text)[1], mdp.decode)
         IN  OkData(MarkdownData(mdp.path, mdp.rel_path, fm))

RelPaths == {<<"a">>, <<"b">>}

DocSamples ==
    { <<"x">>,
      TOML_START \o <<"x">> \o TOML_END \o <<"x">>,
      YAML_START \o <<"x">> \o YAML_END,
      TOML_START \o <<" ">> \o TOML_END \o <<"x">> }

MarkdownPaths ==
    {MarkdownPath(rel, TRUE, text, d) :
        rel \in RelPaths, text \in DocSamples, d \in {"table", "error"}}
    \cup {MarkdownPath(rel, FALSE, <<>>, "error") : rel \in RelPaths}

LoadIdle ==
    /\ files = <<>>
    /\ loaded = <<>>
    /\ lix = 0
    /\ lres = "idle"

LoadInit ==
    /\ files \in SeqsUpTo(MarkdownPaths, MaxFiles)
    /\ loaded = <<>>
    /\ lix = 0
    /\ lres = "running"

\* one step of files.into_iter().map(closure).collect::<Result<Vec<_>>>():
\* the first Err ends the collection and is returned, the Vec is dropped
LoadFile ==
    /\ lres = "running"
    /\ lix < Len(files)
    /\ LET r == load_frontmatter_closure(files[lix + 1])
       IN  IF r.tag = "Err"
           THEN /\ lres' = "Err"
                /\ loaded' = <<>>
           ELSE /\ lres' = "running"
                /\ loaded' = Append(loaded, r.data)
    /\ lix' = lix + 1
    /\ UNCHANGED files

\* the iterator is exhausted: Ok(vec)
LoadReturn ==
    /\ lres = "running"
    /\ lix = Len(files)
    /\ lres' = "Ok"
    /\ UNCHANGED <<files, loaded, lix>>

(***************************************************************************)
(* md_parser.rs: table of contents                                         *)
(***************************************************************************)
\* Bound: number of headings handed to generate_toc_html
MaxHeadings == 4

MAX_TOC_DEPTH == 4
TOC_FLAG == <<"<", "!", "-", "-", " ", "t", "o", "c", " ", "-", "-", ">">>
TOC_INDENT == [kind |-> "<div>", href |-> <<>>, text |-> <<>>]
TOC_END_INDENT == [kind |-> "</div>", href |-> <<>>, text |-> <<>>]

\* str::repeat, for the one-marker strings
Repeat(piece, n) == [i \in 1..n |-> piece]

\* struct Heading
Heading(index, level, text, slug) ==
    [index |-> index, level |-> level, text |-> text, slug |-> slug]

\* fn toc_item_html: <p><a href="#{href}">{text}</a></p>, kept as one piece
toc_item_html(href, text) == [kind |-> "<p>", href |-> href, text |-> text]

\* variant: a lower level closes no group
toc_visit_never_closes(acc, h) ==
    LET delta ==
            IF h.level > acc.indent THEN Repeat(TOC_INDENT, h.level - acc.indent)
            ELSE <<>>
    IN  [html |-> acc.html \o delta \o <<toc_item_html(h.slug, h.text)>>,
         indent |-> IF h.level = acc.indent THEN acc.indent ELSE h.level]

\* the body of the loop of generate_toc_html, for one heading that passed the filter
toc_visit(acc, h) ==
    LET delta ==
            IF h.level > acc.indent THEN Repeat(TOC_INDENT, h.level - acc.indent)
            ELSE IF h.level < acc.indent THEN Repeat(TOC_END_INDENT, acc.indent - h.level)
            ELSE <<>>
    IN  [html |-> acc.html \o delta \o <<toc_item_html(h.slug, h.text)>>,
         indent |-> IF h.level = acc.indent THEN acc.indent ELSE h.level]

\* variant: no upper bound on the level
toc_filter_no_max_depth(h, depth) == h.level >= 1

\* the filter of generate_toc_html
toc_filter(h, depth) == h.level >= 1 /\ h.level <= depth

RECURSIVE toc_loop(_, _, _)
toc_loop(acc, hs, depth) ==
    IF hs = <<>> THEN acc
    ELSE toc_loop(IF toc_filter(Head(hs), depth) THEN toc_visit(acc, Head(hs)) ELSE acc,
                  Tail(hs), depth)

\* fn generate_toc_html
generate_toc_html(hs, depth) ==
    LET acc == toc_loop([html |-> <<>>, indent |-> 0], hs, depth)
    IN  acc.html \o Repeat(TOC_END_INDENT, acc.indent)

\* heading levels are u8; pulldown_cmark yields 1..6
Levels == 0..6

HeadingSamples == {Heading(<<0, 1, 2>>, l, <<"A">>, <<"a">>) : l \in Levels}

TocIdle ==
    /\ headings = <<>>
    /\ max_depth = 0
    /\ html = <<>>
    /\ indent = 0
    /\ hix = 0
    /\ tpc = "idle"

TocInit ==
    /\ headings \in SeqsUpTo(HeadingSamples, MaxHeadings)
    /\ max_depth \in Levels
    /\ html = <<>>
    /\ indent = 0
    /\ hix = 0
    /\ tpc = "loop"

\* the iterator yields a heading the filter drops
TocSkip ==
    /\ tpc = "loop"
    /\ hix < Len(headings)
    /\ ~toc_filter(headings[hix + 1], max_depth)
    /\ hix' = hix + 1
    /\ UNCHANGED <<headings, max_depth, html, indent, tpc>>

\* one iteration of the loop
TocVisit ==
    /\ tpc = "loop"
    /\ hix < Len(headings)
    /\ toc_filter(headings[hix + 1], max_depth)
    /\ LET acc == toc_visit([html |-> html, indent |-> indent], headings[hix + 1])
       IN  /\ html' = acc.html
           /\ indent' = acc.indent
    /\ hix' = hix + 1
    /\ UNCHANGED <<headings, max_depth, tpc>>

\* after the loop: close what is open and return
TocClose ==
    /\ tpc = "loop"
    /\ hix = Len(headings)
    /\ html' = html \o Repeat(TOC_END_INDENT, indent)
    /\ tpc' = "done"
    /\ UNCHANGED <<headings, max_depth, indent, hix>>


(***************************************************************************)
(* md_parser.rs: slugs, heading collection, markdown_to_html               *)
(***************************************************************************)
\* Bound: number of blocks of a parsed document
MaxBlocks == 3

LowerCase ==
    <<"a", "b", "c", "d", "e", "f", "g", "h", "i", "j", "k", "l", "m",
      "n", "o", "p", "q", "r", "s", "t", "u", "v", "w", "x", "y", "z">>
UpperCase ==
    <<"A", "B", "C", "D", "E", "F", "G", "H", "I", "J", "K", "L", "M",
      "N", "O", "P", "Q", "R", "S", "T", "U", "V", "W", "X", "Y", "Z">>
DigitChars == <<"0", "1", "2", "3", "4", "5", "6", "7", "8", "9">>

Range(f) == {f[i] : i \in DOMAIN f}
IndexOf(f, c) == CHOOSE i \in DOMAIN f : f[i] = c

\* characters outside ASCII, by name, with their deunicode transliteration
\* (test_slugify: "α-ω" gives "a-o")
NonAscii == {"alpha", "omega", "snowman"}
deunicode_char(c) ==
    CASE c = "alpha" -> <<"a">>
      [] c = "omega" -> <<"o">>
      [] OTHER -> <<"-">>

\* variant: every other byte pushes a '-', whatever was pushed before
slug_push_char_dash_per_char(acc, x) ==
    IF x \in Range(LowerCase) \cup Range(DigitChars)
    THEN [slug |-> Append(acc.slug, x), prev_is_dash |-> FALSE]
    ELSE IF x \in Range(UpperCase)
    THEN [slug |-> Append(acc.slug, LowerCase[IndexOf(UpperCase, x)]), prev_is_dash |-> FALSE]
    ELSE [slug |-> Append(acc.slug, "-"), prev_is_dash |-> TRUE]

\* the push_char closure of slug::slugify on one ASCII byte
slug_push_char(acc, x) ==
    IF x \in Range(LowerCase) \cup Range(DigitChars)
    THEN [slug |-> Append(acc.slug, x), prev_is_dash |-> FALSE]
    ELSE IF x \in Range(UpperCase)
    THEN [slug |-> Append(acc.slug, LowerCase[IndexOf(UpperCase, x)]), prev_is_dash |-> FALSE]
    ELSE IF ~acc.prev_is_dash
    THEN [slug |-> Append(acc.slug, "-"), prev_is_dash |-> TRUE]
    ELSE acc

RECURSIVE slug_push_all(_, _)
slug_push_all(acc, s) ==
    IF s = <<>> THEN acc
    ELSE LET c == Head(s)
             bytes == IF c \in NonAscii THEN deunicode_char(c) ELSE <<c>>
         IN  slug_push_all(slug_push_char(acc, bytes[1]), Tail(bytes) \o Tail(s))

\* fn slugify_heading_for_anchor (slug::slugify)
slugify_heading_for_anchor(s) ==
    LET acc == slug_push_all([slug |-> <<>>, prev_is_dash |-> TRUE], s)
        n == Len(acc.slug)
    IN  IF n > 0 /\ acc.slug[n] = "-" THEN SubSeq(acc.slug, 1, n - 1) ELSE acc.slug

\* pulldown_cmark::Event, the variants the code distinguishes and some it does not
Event(tag, level, str) == [tag |-> tag, level |-> level, str |-> str]
StartHeading(level) == Event("StartHeading", level, <<>>)
EndHeading(level) == Event("EndHeading", level, <<>>)
Text(text) == Event("Text", 0, text)
Html(markup) == Event("Html", 0, markup)
StartLink(dest) == Event("StartLink", 0, dest)
EndLink == Event("EndLink", 0, <<>>)
StartParagraph == Event("StartParagraph", 0, <<>>)
EndParagraph == Event("EndParagraph", 0, <<>>)
StartEmphasis == Event("StartEmphasis", 0, <<>>)
EndEmphasis == Event("EndEmphasis", 0, <<>>)

\* enum HeadingParseState
Idle == [tag |-> "Idle", ix |-> 0, text_ix |-> 0, level |-> 0, text |-> <<>>]
HeadingStarted(ix, level) ==
    [tag |-> "HeadingStarted", ix |-> ix, text_ix |-> 0, level |-> level, text |-> <<>>]
HeadingTextParsed(ix, text_ix, level, text) ==
    [tag |-> "HeadingTextParsed", ix |-> ix, text_ix |-> text_ix, level |-> level,
     text |-> text]

\* format!("{}", n) for a u8
RECURSIVE Decimal(_)
Decimal(n) == IF n < 10 THEN <<DigitChars[n + 1]>> ELSE Decimal(n \div 10) \o <<DigitChars[(n % 10) + 1]>>

\* fn Heading::html_start_element: <h{level} id="{slug}">
html_start_element(h) ==
    <<"<", "h">> \o Decimal(h.level) \o <<" ", "i", "d", "=", "\"">> \o h.slug \o <<"\"", ">">>

\* variant: the guard on the level of the heading-end is left out
fix_headings_match_any_end_level(event, state, i) ==
    IF event.tag = "StartHeading" /\ state.tag = "Idle"
    THEN [state |-> HeadingStarted(i, event.level), pushed |-> <<>>]
    ELSE IF event.tag = "Text" /\ state.tag = "HeadingStarted"
    THEN [state |-> HeadingTextParsed(state.ix, i, state.level, event.str), pushed |-> <<>>]
    ELSE IF /\ event.tag = "EndHeading"
            /\ state.tag = "HeadingTextParsed"
    THEN [state |-> Idle,
          pushed |-> <<Heading(<<state.ix, state.text_ix, i>>, state.level, state.text,
                               slugify_heading_for_anchor(state.text))>>]
    ELSE [state |-> state, pushed |-> <<>>]

\* variant: a later text event of the heading replaces the text parsed
fix_headings_match_last_text(event, state, i) ==
    IF event.tag = "StartHeading" /\ state.tag = "Idle"
    THEN [state |-> HeadingStarted(i, event.level), pushed |-> <<>>]
    ELSE IF event.tag = "Text" /\ state.tag \in {"HeadingStarted", "HeadingTextParsed"}
    THEN [state |-> HeadingTextParsed(state.ix, i, state.level, event.str), pushed |-> <<>>]
    ELSE IF /\ event.tag = "EndHeading"
            /\ state.tag = "HeadingTextParsed"
            /\ event.level = state.level
    THEN [state |-> Idle,
          pushed |-> <<Heading(<<state.ix, state.text_ix, i>>, state.level, state.text,
                               slugify_heading_for_anchor(state.text))>>]
    ELSE [state |-> state, pushed |-> <<>>]

\* variant: a heading-start met while a heading is pending starts over from it
fix_headings_match_restart_on_start(event, state, i) ==
    IF event.tag = "StartHeading"
    THEN [state |-> HeadingStarted(i, event.level), pushed |-> <<>>]
    ELSE IF event.tag = "Text" /\ state.tag = "HeadingStarted"
    THEN [state |-> HeadingTextParsed(state.ix, i, state.level, event.str), pushed |-> <<>>]
    ELSE IF /\ event.tag = "EndHeading"
            /\ state.tag = "HeadingTextParsed"
            /\ event.level = state.level
    THEN [state |-> Idle,
          pushed |-> <<Heading(<<state.ix, state.text_ix, i>>, state.level, state.text,
                               slugify_heading_for_anchor(state.text))>>]
    ELSE [state |-> state, pushed |-> <<>>]

\* one arm of the match of fix_headings on (event, state), at index i:
\* the new state and the headings pushed
fix_headings_match(event, state, i) ==
    IF event.tag = "StartHeading" /\ state.tag = "Idle"
    THEN [state |-> HeadingStarted(i, event.level), pushed |-> <<>>]
    ELSE IF event.tag = "Text" /\ state.tag = "HeadingStarted"
    THEN [state |-> HeadingTextParsed(state.ix, i, state.level, event.str), pushed |-> <<>>]
    ELSE IF /\ event.tag = "EndHeading"
            /\ state.tag = "HeadingTextParsed"
            /\ event.level = state.level
    THEN [state |-> Idle,
          pushed |-> <<Heading(<<state.ix, state.text_ix, i>>, state.level, state.text,
                               slugify_heading_for_anchor(state.text))>>]
    ELSE [state |-> state, pushed |-> <<>>]

RECURSIVE fix_headings_scan(_, _, _, _)
\* the first loop of fix_headings, from index i on
fix_headings_scan(evs, i, state, hs) ==
    IF i >= Len(evs) THEN hs
    ELSE LET m == fix_headings_match(evs[i + 1], state, i)
         IN  fix_headings_scan(evs, i + 1, m.state, hs \o m.pushed)

\* the second loop of fix_headings: events[start_ix] = Html(h.html_start_element())
fix_headings_rewrite(evs, hs) ==
    [k \in 1..Len(evs) |->
        IF \E n \in 1..Len(hs) : hs[n].index[1] = k - 1
        THEN LET n == CHOOSE n \in 1..Len(hs) : hs[n].index[1] = k - 1
             IN  Html(html_start_element(hs[n]))
        ELSE evs[k]]

\* fn fix_headings: the events after the call and the headings returned
fix_headings(evs) ==
    LET hs == fix_headings_scan(evs, 0, Idle, <<>>)
    IN  [events |-> fix_headings_rewrite(evs, hs), headings |-> hs]

\* str::replacen(pat, "", 1)
RemoveFirst(s, pat) ==
    LET i == Find(s, pat)
    IN  IF i = NoneIx THEN s ELSE Slice(s, 0, i) \o SliceFrom(s, i + Len(pat))

\* str::replace(pat, "")
RECURSIVE RemoveAll(_, _)
RemoveAll(s, pat) ==
    LET i == Find(s, pat)
    IN  IF i = NoneIx THEN s ELSE Slice(s, 0, i) \o RemoveAll(SliceFrom(s, i + Len(pat)), pat)

\* whether the map closure of markdown_to_html sets enable_toc on this event
sets_enable_toc(event) == event.tag = "Html" /\ Contains(event.str, TOC_FLAG)

\* variant: every occurrence of the flag is removed
map_event_removes_every_flag(event) ==
    IF event.tag = "StartLink" /\ event.str = <<>> THEN StartLink(<<"#">>)
    ELSE IF event.tag = "Html" THEN Html(RemoveAll(event.str, TOC_FLAG))
    ELSE event

\* the event the map closure of markdown_to_html yields
map_event(event) ==
    IF event.tag = "StartLink" /\ event.str = <<>> THEN StartLink(<<"#">>)
    ELSE IF event.tag = "Html"
    THEN IF Contains(event.str, TOC_FLAG)
         THEN Html(RemoveFirst(event.str, TOC_FLAG))
         ELSE Html(event.str)
    ELSE event

\* Option<String>
None == [some |-> FALSE, value |-> <<>>]
Some(v) == [some |-> TRUE, value |-> v]

\* raw html of a document: with and without the toc flag, with the flag twice,
\* and with the halves of a second flag around the flag
HtmlMarkups ==
    { <<"<", "b", ">">>,
      TOC_FLAG \o <<"\n">>,
      <<"<", "b", ">">> \o TOC_FLAG,
      TOC_FLAG \o TOC_FLAG,
      SubSeq(TOC_FLAG, 1, 5) \o TOC_FLAG \o SubSeq(TOC_FLAG, 6, 12) }

HeadingTexts == {<<"A", " ", "b">>}

\* the events of a heading's content: plain text, text with emphasis, none
HeadingInlines ==
    { <<Text(t)>> : t \in HeadingTexts }
    \cup { <<Text(<<"a", " ">>), StartEmphasis, Text(<<"b">>), EndEmphasis>> }
    \cup { <<>> }

\* the blocks the parser yields events for
Blocks ==
    { <<Html(m)>> : m \in HtmlMarkups }
    \cup { <<StartHeading(l)>> \o inl \o <<EndHeading(l)>> :
              l \in {1, 2, 5}, inl \in HeadingInlines }
    \cup { <<StartParagraph, StartLink(d), Text(<<"x">>), EndLink, EndParagraph>> :
              d \in {<<>>, <<"u">>} }

MdIdle ==
    /\ parsed = <<>>
    /\ events = <<>>
    /\ enable_toc = FALSE
    /\ toc = None
    /\ md_headings = <<>>
    /\ mpc = "idle"

MdInit ==
    /\ parsed \in {Concat(bs) : bs \in SeqsUpTo(Blocks, MaxBlocks)}
    /\ events = <<>>
    /\ enable_toc = FALSE
    /\ toc = None
    /\ md_headings = <<>>
    /\ mpc = "map"

\* variant: the flag is assigned from each raw-html test instead of only set
MdMapEvent_flag_follows_last_event ==
    /\ mpc = "map"
    /\ Len(events) < Len(parsed)
    /\ LET event == parsed[Len(events) + 1]
       IN  /\ events' = Append(events, map_event(event))
           /\ enable_toc' = sets_enable_toc(event)
    /\ UNCHANGED <<parsed, toc, md_headings, mpc>>

\* the parser yields the next event, the map closure handles it and collect
\* pushes the result
MdMapEvent ==
    /\ mpc = "map"
    /\ Len(events) < Len(parsed)
    /\ LET event == parsed[Len(events) + 1]
       IN  /\ events' = Append(events, map_event(event))
           /\ enable_toc' = IF sets_enable_toc(event) THEN TRUE ELSE enable_toc
    /\ UNCHANGED <<parsed, toc, md_headings, mpc>>

\* variant: the headings are collected whether or not the flag was seen
MdFinish_always_fixes_headings ==
    /\ mpc = "map"
    /\ Len(events) = Len(parsed)
    /\ LET r == fix_headings(events)
       IN  /\ events' = r.events
           /\ md_headings' = r.headings
           /\ toc' = IF enable_toc
                     THEN Some(generate_toc_html(r.headings, MAX_TOC_DEPTH))
                     ELSE None
    /\ mpc' = "done"
    /\ UNCHANGED <<parsed, enable_toc>>

\* the parser is exhausted: toc and heading ids if requested; the events
\* are then handed to push_html
MdFinish ==
    /\ mpc = "map"
    /\ Len(events) = Len(parsed)
    /\ IF enable_toc
       THEN LET r == fix_headings(events)
            IN  /\ events' = r.events
                /\ md_headings' = r.headings
                /\ toc' = Some(generate_toc_html(r.headings, MAX_TOC_DEPTH))
       ELSE /\ toc' = None
            /\ UNCHANGED <<events, md_headings>>
    /\ mpc' = "done"
    /\ UNCHANGED <<parsed, enable_toc>>

(***************************************************************************)
(* md_parser.rs: fix_headings, loop by loop, over any slice of events      *)
(***************************************************************************)
\* Bound: number of events of a slice handed to fix_headings
MaxEvents == 5

\* the events of a slice: heading starts and ends of two levels, two texts,
\* and an event fix_headings does not look at
EventSamples ==
    { StartHeading(1), StartHeading(2), EndHeading(1), EndHeading(2),
      Text(<<"A">>), Text(<<"b", " ", "c">>), StartEmphasis }

FixIdle ==
    /\ fin = <<>>
    /\ fevents = <<>>
    /\ fstate = Idle
    /\ fheadings = <<>>
    /\ fix = 0
    /\ fpc = "idle"

FixInit ==
    /\ fin \in SeqsUpTo(EventSamples, MaxEvents)
    /\ fevents = fin
    /\ fstate = Idle
    /\ fheadings = <<>>
    /\ fix = 0
    /\ fpc = "scan"

\* one iteration of the first loop: match (event, &state)
FixScanEvent ==
    /\ fpc = "scan"
    /\ fix < Len(fevents)
    /\ LET m == fix_headings_match(fevents[fix + 1], fstate, fix)
       IN  /\ fstate' = m.state
           /\ fheadings' = fheadings \o m.pushed
    /\ fix' = fix + 1
    /\ UNCHANGED <<fin, fevents, fpc>>

\* variant: the second loop writes the element at the Heading's text index
FixRewriteHeading_at_text_index ==
    /\ \/ fpc = "scan" /\ fix = Len(fevents) /\ fheadings # <<>>
       \/ fpc = "rewrite" /\ fix < Len(fheadings)
    /\ LET n == IF fpc = "scan" THEN 0 ELSE fix
           h == fheadings[n + 1]
       IN  /\ fevents' = [fevents EXCEPT ![h.index[2] + 1] = Html(html_start_element(h))]
           /\ fix' = n + 1
    /\ fpc' = "rewrite"
    /\ UNCHANGED <<fin, fstate, fheadings>>

\* one iteration of the second loop: events[start_ix] = Event::Html(..);
\* the first loop has ended when fix = Len(fevents), the second then starts at 0
FixRewriteHeading ==
    /\ \/ fpc = "scan" /\ fix = Len(fevents) /\ fheadings # <<>>
       \/ fpc = "rewrite" /\ fix < Len(fheadings)
    /\ LET n == IF fpc = "scan" THEN 0 ELSE fix
           h == fheadings[n + 1]
       IN  /\ fevents' = [fevents EXCEPT ![h.index[1] + 1] = Html(html_start_element(h))]
           /\ fix' = n + 1
    /\ fpc' = "rewrite"
    /\ UNCHANGED <<fin, fstate, fheadings>>

\* both loops have ended: return headings
FixReturn ==
    /\ \/ fpc = "scan" /\ fix = Len(fevents) /\ fheadings = <<>>
       \/ fpc = "rewrite" /\ fix = Len(fheadings)
    /\ fpc' = "done"
    /\ UNCHANGED <<fin, fevents, fstate, fheadings, fix>>

(***************************************************************************)
(* md_parser.rs: slugify_heading_for_anchor (slug::slugify), char by char  *)
(***************************************************************************)
\* Bound: length of a heading text handed to slugify_heading_for_anchor
MaxSlugLen == 4

\* ASCII characters of a heading text: letters of both cases, a digit, space,
\* tab, hyphen, underscore, punctuation
SlugChars == {"a", "Z", "7", " ", "\t", "-", "_", "*"}

SlugIdle ==
    /\ sin = <<>>
    /\ sacc = [slug |-> <<>>, prev_is_dash |-> TRUE]
    /\ six = 0
    /\ sout = <<>>
    /\ slpc = "idle"

SlugInit ==
    /\ sin \in SeqsUpTo(SlugChars, MaxSlugLen)
    /\ sacc = [slug |-> <<>>, prev_is_dash |-> TRUE]
    /\ six = 0
    /\ sout = <<>>
    /\ slpc = "push"

\* one iteration of `for c in s.chars()`: push the char, or the bytes of its
\* transliteration
SlugPushChar ==
    /\ slpc = "push"
    /\ six < Len(sin)
    /\ LET c == sin[six + 1]
       IN  sacc' = IF c \in NonAscii
                   THEN slug_push_all(sacc, <<c>>)
                   ELSE slug_push_char(sacc, c)
    /\ six' = six + 1
    /\ UNCHANGED <<sin, sout, slpc>>

\* after the loop: a trailing '-' is popped, the string is returned
SlugReturn ==
    /\ slpc = "push"
    /\ six = Len(sin)
    /\ LET n == Len(sacc.slug)
       IN  sout' = IF n > 0 /\ sacc.slug[n] = "-" THEN SubSeq(sacc.slug, 1, n - 1) ELSE sacc.slug
    /\ slpc' = "done"
    /\ UNCHANGED <<sin, sacc, six>>

(***************************************************************************)
(* markdown.rs: write_markdown, and reading back what it wrote             *)
(***************************************************************************)
\* Bound: number of fields of a record handed to write_markdown
MaxFields == 2

\* field names, in the order a table serializes them
FieldNames == <<"a", "b", "c", "d">>
Fields(n) == {FieldNames[i] : i \in 1..n}

\* field values: empty, a word, a marker line, text with quote and backslash
FieldValues ==
    { <<>>, <<"x">>, <<"x", "\n", "+", "+", "+", "\n">>, <<"\"", "\\">> }

\* the records: tables with some of the fields
Records(n) == UNION {[ks -> FieldValues] : ks \in SUBSET Fields(n)}

\* toml: a basic string escapes quote, backslash and newline
toml_escape_char(c) ==
    CASE c = "\"" -> <<"\\", "\"">>
      [] c = "\\" -> <<"\\", "\\">>
      [] c = "\n" -> <<"\\", "n">>
      [] OTHER -> <<c>>

RECURSIVE toml_escape(_)
toml_escape(s) == IF s = <<>> THEN <<>> ELSE toml_escape_char(Head(s)) \o toml_escape(Tail(s))

RECURSIVE toml_fields_to_string(_, _)
\* the lines `key = "value"\n` of the fields from the i-th name on
toml_fields_to_string(data, i) ==
    IF i > Len(FieldNames) THEN <<>>
    ELSE (IF FieldNames[i] \in DOMAIN data
          THEN <<FieldNames[i], " ", "=", " ", "\"">> \o toml_escape(data[FieldNames[i]])
               \o <<"\"", "\n">>
          ELSE <<>>)
         \o toml_fields_to_string(data, i + 1)

\* toml::to_string(data): one line per field, nothing for a table with no field
toml_to_string(data) == toml_fields_to_string(data, 1)

TomlError == [ok |-> FALSE, table |-> <<>>]
TomlTable(t) == [ok |-> TRUE, table |-> t]

RECURSIVE toml_unescape(_)
\* the text of a basic string, or an error for a bare quote or a bad escape
toml_unescape(s) ==
    IF s = <<>> THEN [ok |-> TRUE, str |-> <<>>]
    ELSE IF Head(s) = "\"" \/ Head(s) = "\n" THEN [ok |-> FALSE, str |-> <<>>]
    ELSE IF Head(s) = "\\"
    THEN IF Len(s) < 2 \/ s[2] \notin {"\"", "\\", "n"}
         THEN [ok |-> FALSE, str |-> <<>>]
         ELSE LET r == toml_unescape(SubSeq(s, 3, Len(s)))
                  c == IF s[2] = "n" THEN "\n" ELSE s[2]
              IN  [ok |-> r.ok, str |-> <<c>> \o r.str]
    ELSE LET r == toml_unescape(Tail(s))
         IN  [ok |-> r.ok, str |-> <<Head(s)>> \o r.str]

RECURSIVE toml_parse_lines(_, _)
\* toml::from_str on the text s, adding to the table t: blank lines are
\* skipped, a line is `key = "value"`, a key may not come twice
toml_parse_lines(s, t) ==
    IF s = <<>> THEN TomlTable(t)
    ELSE LET nl == Find(s, <<"\n">>)
             line == Trim(IF nl = NoneIx THEN s ELSE Slice(s, 0, nl))
             rest == IF nl = NoneIx THEN <<>> ELSE SliceFrom(s, nl + 1)
         IN  IF line = <<>> THEN toml_parse_lines(rest, t)
             ELSE IF /\ Len(line) >= 6
                     /\ line[1] \in Range(FieldNames)
                     /\ line[1] \notin DOMAIN t
                     /\ SubSeq(line, 2, 5) = <<" ", "=", " ", "\"">>
                     /\ line[Len(line)] = "\""
             THEN LET v == toml_unescape(SubSeq(line, 6, Len(line) - 1))
                  IN  IF v.ok
                      THEN toml_parse_lines(rest,
                               [k \in DOMAIN t \cup {line[1]} |->
                                   IF k = line[1] THEN v.str ELSE t[k]])
                      ELSE TomlError
             ELSE TomlError

\* toml::from_str(buf) for a table of string fields
toml_from_str(buf) == toml_parse_lines(buf, <<>>)

\* fn make_toml_frontmatter
make_toml_frontmatter(data) == TOML_START \o toml_to_string(data) \o TOML_END

\* fn write_markdown: the bytes the writer receives
write_markdown(data, content) == make_toml_frontmatter(data) \o content

\* what toml::from_str makes of the payload, as a decoder outcome
DecodeOutcomeOf(f) == IF toml_from_str(f.buf).ok THEN "table" ELSE "error"

\* contents: empty, a line, text with whitespace around, a document of its own
Contents ==
    { <<>>, <<"h", "i">>, <<" ", "h", "i", "\n">>, <<"\n">>,
      <<"+", "+", "+", "\n", "x", "\n", "+", "+", "+", "\n", "h", "i">> }

RoundIdle ==
    /\ wdata = <<>>
    /\ wcontent = <<>>
    /\ wdoc = <<>>
    /\ wfront = Empty
    /\ wbody = <<>>
    /\ wdecoded = NoResult
    /\ wpc = "idle"

RoundInit ==
    /\ wdata \in Records(MaxFields)
    /\ wcontent \in Contents
    /\ wdoc = <<>>
    /\ wfront = Empty
    /\ wbody = <<>>
    /\ wdecoded = NoResult
    /\ wpc = "write"

\* write_markdown(&data, content, &mut writer)
WriteMarkdown ==
    /\ wpc = "write"
    /\ wdoc' = write_markdown(wdata, wcontent)
    /\ wpc' = "written"
    /\ UNCHANGED <<wdata, wcontent, wfront, wbody, wdecoded>>

\* let (front, body) = split_markdown(&doc)
ReadSplit ==
    /\ wpc = "written"
    /\ LET r == split_markdown(wdoc)
       IN  /\ wfront' = r[1]
           /\ wbody' = r[2]
    /\ wpc' = "split"
    /\ UNCHANGED <<wdata, wcontent, wdoc, wdecoded>>

\* parse_frontmatter::<T>(front)
ReadParse ==
    /\ wpc = "split"
    /\ wdecoded' = parse_frontmatter(wfront, DecodeOutcomeOf(wfront))
    /\ wpc' = "parsed"
    /\ UNCHANGED <<wdata, wcontent, wdoc, wfront, wbody>>

(***************************************************************************)
(* render.rs: Renderer, its vars dict and render / write_page_html         *)
(***************************************************************************)
\* Bound: number of calls made on one Renderer
MaxCalls == 3

\* TomlMap::new()
EmptyMap == <<>>

\* TomlMap::insert(key, val)
MapInsert(m, key, val) == [k \in DOMAIN m \cup {key} |-> IF k = key THEN val ELSE m[k]]

\* TomlMap::remove(key)
MapRemove(m, key) == [k \in DOMAIN m \ {key} |-> m[k]]

\* TomlMap::extend(other): the entries of other replace those of m
MapExtend(m, other) ==
    [k \in DOMAIN m \cup DOMAIN other |-> IF k \in DOMAIN other THEN other[k] ELSE m[k]]

\* fn Renderer::set_vars
set_vars(rv, m) == m

\* fn Renderer::set
set(rv, key, val) == MapInsert(rv, key, val)

RECURSIVE set_from_loop(_, _)
\* fn Renderer::set_from, the loop over the entries still in m
set_from_loop(rv, m) ==
    IF DOMAIN m = {} THEN rv
    ELSE LET k == CHOOSE k \in DOMAIN m : TRUE
         IN  set_from_loop(set(rv, k, m[k]), MapRemove(m, k))

\* fn Renderer::set_from
set_from(rv, m) == set_from_loop(rv, m)

\* fn Renderer::remove
remove(rv, key) == MapRemove(rv, key)

\* variant: the values passed to render override those of the renderer dict
render_caller_data_wins(rv, data) == MapExtend(rv, data)

\* fn Renderer::render: the data render_to_write receives
render(rv, data) == MapExtend(data, rv)

\* fn markdown_to_html, on the events the parser yields
markdown_to_html(p) ==
    LET mapped == [i \in 1..Len(p) |-> map_event(p[i])]
    IN  IF \E i \in 1..Len(p) : sets_enable_toc(p[i])
        THEN LET r == fix_headings(mapped)
             IN  [content |-> r.events,
                  toc |-> Some(generate_toc_html(r.headings, MAX_TOC_DEPTH))]
        ELSE [content |-> mapped, toc |-> None]

\* fn Renderer::write_page_html: the data render_to_write receives; the html
\* and the toc strings are kept as the tokens "html.content" and "html.toc"
write_page_html(rv, map, p) ==
    LET res == markdown_to_html(p)
        m1 == MapInsert(map, "content", "html.content")
        m2 == IF res.toc.some THEN MapInsert(m1, "toc", "html.toc") ELSE m1
    IN  render(rv, m2)

\* keys and values of the dicts
RenderKeys == {"title", "content", "toc"}
RendererValues == {"r1", "r2"}
Map1(k, v) == [x \in {k} |-> v]

\* maps passed to set_from and set_vars
RendererMaps ==
    { EmptyMap, Map1("content", "r1"), MapInsert(Map1("title", "r2"), "toc", "r1") }

\* maps passed to render and write_page_html
CallerMaps ==
    { EmptyMap, Map1("title", "c1"),
      [k \in RenderKeys |-> "c2"] }

\* markdown passed to write_page_html: a heading, with and without the toc flag
RenderDocs ==
    { <<StartHeading(1), Text(<<"A">>), EndHeading(1)>>,
      <<Html(TOC_FLAG \o <<"\n">>), StartHeading(1), Text(<<"A">>), EndHeading(1)>> }

LogEntry(op, key, val, m) == [op |-> op, key |-> key, val |-> val, map |-> m]

RenderIdle ==
    /\ rvars = EmptyMap
    /\ rlog = <<>>
    /\ rop = "idle"
    /\ rarg = EmptyMap
    /\ rdoc = <<>>
    /\ rdata = EmptyMap
    /\ rcount = 0

\* Renderer::init: vars: TomlMap::new()
RenderInit ==
    /\ rvars = EmptyMap
    /\ rlog = <<>>
    /\ rop = "init"
    /\ rarg = EmptyMap
    /\ rdoc = <<>>
    /\ rdata = EmptyMap
    /\ rcount = 0

RendererSet ==
    /\ rop # "idle"
    /\ rcount < MaxCalls
    /\ \E key \in RenderKeys, val \in RendererValues :
          /\ rvars' = set(rvars, key, val)
          /\ rlog' = Append(rlog, LogEntry("set", key, val, EmptyMap))
    /\ rop' = "set"
    /\ rcount' = rcount + 1
    /\ UNCHANGED <<rarg, rdoc, rdata>>

RendererSetFrom ==
    /\ rop # "idle"
    /\ rcount < MaxCalls
    /\ \E m \in RendererMaps :
          /\ rvars' = set_from(rvars, m)
          /\ rlog' = Append(rlog, LogEntry("set_from", "", "", m))
    /\ rop' = "set_from"
    /\ rcount' = rcount + 1
    /\ UNCHANGED <<rarg, rdoc, rdata>>

RendererRemove ==
    /\ rop # "idle"
    /\ rcount < MaxCalls
    /\ \E key \in RenderKeys :
          /\ rvars' = remove(rvars, key)
          /\ rlog' = Append(rlog, LogEntry("remove", key, "", EmptyMap))
    /\ rop' = "remove"
    /\ rcount' = rcount + 1
    /\ UNCHANGED <<rarg, rdoc, rdata>>

RendererSetVars ==
    /\ rop # "idle"
    /\ rcount < MaxCalls
    /\ \E m \in RendererMaps :
          /\ rvars' = set_vars(rvars, m)
          /\ rlog' = Append(rlog, LogEntry("set_vars", "", "", m))
    /\ rop' = "set_vars"
    /\ rcount' = rcount + 1
    /\ UNCHANGED <<rarg, rdoc, rdata>>

\* render(&self, ..): self.vars is cloned, not written
RendererRender ==
    /\ rop # "idle"
    /\ rcount < MaxCalls
    /\ \E data \in CallerMaps :
          /\ rarg' = data
          /\ rdata' = render(rvars, data)
    /\ rdoc' = <<>>
    /\ rop' = "render"
    /\ rcount' = rcount + 1
    /\ UNCHANGED <<rvars, rlog>>

RendererWritePageHtml ==
    /\ rop # "idle"
    /\ rcount < MaxCalls
    /\ \E map \in CallerMaps, p \in RenderDocs :
          /\ rarg' = map
          /\ rdoc' = p
          /\ rdata' = write_page_html(rvars, map, p)
    /\ rop' = "write_page_html"
    /\ rcount' = rcount + 1
    /\ UNCHANGED <<rvars, rlog>>

(***************************************************************************)
(* Specifications, one per entry point                                     *)
(***************************************************************************)
SplitSpecInit == SplitInit /\ LoadIdle /\ TocIdle /\ MdIdle /\ FixIdle /\ SlugIdle /\ RoundIdle /\ RenderIdle
SplitSpecNext ==
    \/ SplitMarkdown /\ UNCHANGED <<loadVars, tocVars, mdVars, fixVars, slugVars, roundVars, renderVars>>
    \/ Parse /\ UNCHANGED <<loadVars, tocVars, mdVars, fixVars, slugVars, roundVars, renderVars>>
    \/ ParseFrontmatter /\ UNCHANGED <<loadVars, tocVars, mdVars, fixVars, slugVars, roundVars, renderVars>>
    \/ ParseFrontmatterToMap /\ UNCHANGED <<loadVars, tocVars, mdVars, fixVars, slugVars, roundVars, renderVars>>
SplitSpec == SplitSpecInit /\ [][SplitSpecNext]_vars

LoadSpecInit == SplitIdle /\ LoadInit /\ TocIdle /\ MdIdle /\ FixIdle /\ SlugIdle /\ RoundIdle /\ RenderIdle
LoadSpecNext ==
    \/ LoadFile /\ UNCHANGED <<splitVars, tocVars, mdVars, fixVars, slugVars, roundVars, renderVars>>
    \/ LoadReturn /\ UNCHANGED <<splitVars, tocVars, mdVars, fixVars, slugVars, roundVars, renderVars>>
LoadSpec == LoadSpecInit /\ [][LoadSpecNext]_vars

TocSpecInit == SplitIdle /\ LoadIdle /\ TocInit /\ MdIdle /\ FixIdle /\ SlugIdle /\ RoundIdle /\ RenderIdle
TocSpecNext ==
    \/ TocSkip /\ UNCHANGED <<splitVars, loadVars, mdVars, fixVars, slugVars, roundVars, renderVars>>
    \/ TocVisit /\ UNCHANGED <<splitVars, loadVars, mdVars, fixVars, slugVars, roundVars, renderVars>>
    \/ TocClose /\ UNCHANGED <<splitVars, loadVars, mdVars, fixVars, slugVars, roundVars, renderVars>>
TocSpec == TocSpecInit /\ [][TocSpecNext]_vars

MdSpecInit == SplitIdle /\ LoadIdle /\ TocIdle /\ MdInit /\ FixIdle /\ SlugIdle /\ RoundIdle /\ RenderIdle
MdSpecNext ==
    \/ MdMapEvent /\ UNCHANGED <<splitVars, loadVars, tocVars, fixVars, slugVars, roundVars, renderVars>>
    \/ MdFinish /\ UNCHANGED <<splitVars, loadVars, tocVars, fixVars, slugVars, roundVars, renderVars>>
MdSpec == MdSpecInit /\ [][MdSpecNext]_vars

FixSpecInit == SplitIdle /\ LoadIdle /\ TocIdle /\ MdIdle /\ FixInit /\ SlugIdle /\ RoundIdle /\ RenderIdle
FixSpecNext ==
    \/ FixScanEvent /\ UNCHANGED <<splitVars, loadVars, tocVars, mdVars, slugVars, roundVars, renderVars>>
    \/ FixRewriteHeading /\ UNCHANGED <<splitVars, loadVars, tocVars, mdVars, slugVars, roundVars, renderVars>>
    \/ FixReturn /\ UNCHANGED <<splitVars, loadVars, tocVars, mdVars, slugVars, roundVars, renderVars>>
FixSpec == FixSpecInit /\ [][FixSpecNext]_vars

SlugSpecInit == SplitIdle /\ LoadIdle /\ TocIdle /\ MdIdle /\ FixIdle /\ SlugInit /\ RoundIdle /\ RenderIdle
SlugSpecNext ==
    \/ SlugPushChar /\ UNCHANGED <<splitVars, loadVars, tocVars, mdVars, fixVars, roundVars, renderVars>>
    \/ SlugReturn /\ UNCHANGED <<splitVars, loadVars, tocVars, mdVars, fixVars, roundVars, renderVars>>
SlugSpec == SlugSpecInit /\ [][SlugSpecNext]_vars

RoundSpecInit == SplitIdle /\ LoadIdle /\ TocIdle /\ MdIdle /\ FixIdle /\ SlugIdle /\ RoundInit /\ RenderIdle
RoundSpecNext ==
    \/ WriteMarkdown /\ UNCHANGED <<splitVars, loadVars, tocVars, mdVars, fixVars, slugVars, renderVars>>
    \/ ReadSplit /\ UNCHANGED <<splitVars, loadVars, tocVars, mdVars, fixVars, slugVars, renderVars>>
    \/ ReadParse /\ UNCHANGED <<splitVars, loadVars, tocVars, mdVars, fixVars, slugVars, renderVars>>
RoundSpec == RoundSpecInit /\ [][RoundSpecNext]_vars

RenderSpecInit == SplitIdle /\ LoadIdle /\ TocIdle /\ MdIdle /\ FixIdle /\ SlugIdle /\ RoundIdle /\ RenderInit
RenderSpecNext ==
    \/ RendererSet /\ UNCHANGED <<splitVars, loadVars, tocVars, mdVars, fixVars, slugVars, roundVars>>
    \/ RendererSetFrom /\ UNCHANGED <<splitVars, loadVars, tocVars, mdVars, fixVars, slugVars, roundVars>>
    \/ RendererRemove /\ UNCHANGED <<splitVars, loadVars, tocVars, mdVars, fixVars, slugVars, roundVars>>
    \/ RendererSetVars /\ UNCHANGED <<splitVars, loadVars, tocVars, mdVars, fixVars, slugVars, roundVars>>
    \/ RendererRender /\ UNCHANGED <<splitVars, loadVars, tocVars, mdVars, fixVars, slugVars, roundVars>>
    \/ RendererWritePageHtml /\ UNCHANGED <<splitVars, loadVars, tocVars, mdVars, fixVars, slugVars, roundVars>>
RenderSpec == RenderSpecInit /\ [][RenderSpecNext]_vars

(***************************************************************************)
(* Properties of split_markdown and the decoders (SplitSpec)               *)
(***************************************************************************)
\* the two frontmatter formats: variant, open marker, close marker
Formats ==
    { [kind |-> "Toml", open |-> <<"+", "+", "+", "\n">>, close |-> <<"\n", "+", "+", "+", "\n">>],
      [kind |-> "Yaml", open |-> <<"-", "-", "-", "\n">>, close |-> <<"\n", "-", "-", "-", "\n">>] }

\* text T begins with the four characters of the open marker
HasOpen(T, open) == Len(T) >= 4 /\ \A i \in 1..4 : T[i] = open[i]

\* the five characters of the close marker stand at offset k of T
CloseAt(T, k, close) == k + 5 <= Len(T) /\ \A i \in 1..5 : T[k + i] = close[i]

\* offsets of the close markers that follow the three marker characters of the
\* open marker; the first of them may share the open marker's newline (offset 3)
CloseOffsets(T, close) == {k \in 3..(Len(T) - 5) : CloseAt(T, k, close)}
HasClose(T, close) == CloseOffsets(T, close) # {}
FirstClose(T, close) ==
    CHOOSE k \in CloseOffsets(T, close) : \A j \in CloseOffsets(T, close) : k <= j

\* the text strictly between the open marker and the close marker at offset k
Between(T, k) == SubSeq(T, 5, k)
\* the text after the close marker at offset k
After(T, k) == SubSeq(T, k + 6, Len(T))

AllWhitespace(s) == \A i \in 1..Len(s) : s[i] \in {" ", "\n", "\t"}

\* t is s without its leading and trailing whitespace
IsTrimOf(t, s) ==
    \E a \in 0..(Len(s) - Len(t)) :
        /\ t = SubSeq(s, a + 1, a + Len(t))
        /\ AllWhitespace(SubSeq(s, 1, a))
        /\ AllWhitespace(SubSeq(s, a + Len(t) + 1, Len(s)))
        /\ t # <<>> => ~AllWhitespace(<<t[1]>>) /\ ~AllWhitespace(<<t[Len(t)]>>)

\* split_markdown has returned (the decoders leave markdown, front and body alone)
SplitDone == spc = "split"

C2_PayloadAndBodyTrimmed ==
    \A f \in Formats :
        (/\ SplitDone
         /\ HasOpen(markdown, f.open)
         /\ HasClose(markdown, f.close)
         /\ ~AllWhitespace(Between(markdown, FirstClose(markdown, f.close))))
        => LET k == FirstClose(markdown, f.close)
           IN  /\ front.kind = f.kind
               /\ IsTrimOf(front.buf, Between(markdown, k))
               /\ IsTrimOf(body, After(markdown, k))

\* C2 witness: "---\nx\n+++\n\n---\n " is Yaml("x\n+++") with an empty body
C2_Witness ==
    /\ SplitDone
    /\ markdown = <<"-", "-", "-", "\n", "x", "\n", "+", "+", "+", "\n",
                    "\n", "-", "-", "-", "\n", " ">>
    /\ front = Yaml(<<"x", "\n", "+", "+", "+">>)
    /\ body = <<>>

C4_BlankBlockIsEmptyBodyAfterClose ==
    \A f \in Formats :
        /\ (/\ SplitDone
            /\ HasOpen(markdown, f.open)
            /\ HasClose(markdown, f.close)
            /\ AllWhitespace(Between(markdown, FirstClose(markdown, f.close))))
           => /\ front = Empty
              /\ IsTrimOf(body, After(markdown, FirstClose(markdown, f.close)))
        /\ (SplitDone /\ markdown \in {f.open \o f.close, f.open \o f.open})
           => (front = Empty /\ body = <<>>)

\* C4 witness: "+++\n+++\n x" is Empty with body "x", not the text
C4_Witness ==
    /\ SplitDone
    /\ markdown = <<"+", "+", "+", "\n", "+", "+", "+", "\n", " ", "x">>
    /\ front = Empty
    /\ body = <<"x">>

\* C5 as stated: whenever the result is Empty the body is the original text
C5_EmptyBodyIsOriginalText ==
    (SplitDone /\ front = Empty) => body = markdown

\* C5 amended: whenever the result is Empty, the body is the original text
\* unless a matching close marker follows the open marker, and then the block
\* is blank and the body is the trimmed text after that close marker
C5_EmptyBodyIsOriginalOrAfterClose ==
    (SplitDone /\ front = Empty)
        => IF \E f \in Formats : HasOpen(markdown, f.open) /\ HasClose(markdown, f.close)
           THEN \A f \in Formats :
                    HasOpen(markdown, f.open)
                        => LET k == FirstClose(markdown, f.close)
                           IN  /\ AllWhitespace(Between(markdown, k))
                               /\ IsTrimOf(body, After(markdown, k))
           ELSE body = markdown

\* C5 witness: "---\n \n---\nx " is Empty with body "x"
C5_Witness ==
    /\ SplitDone
    /\ markdown = <<"-", "-", "-", "\n", " ", "\n", "-", "-", "-", "\n", "x", " ">>
    /\ front = Empty
    /\ body = <<"x">>

\* C6: parse, parse_frontmatter and parse_frontmatter_to_map return
\* Err(Error::FrontmatterParse) on Frontmatter::Empty, whatever the decoder
\* would make of a payload
C6_DecodingEmptyFails ==
    (spc = "parsed" /\ front = Empty)
        => (/\ decoded.fn \in {"parse", "parse_frontmatter", "parse_frontmatter_to_map"}
            /\ decoded.res.tag = "Err"
            /\ decoded.res.error = "FrontmatterParse")

\* C6 witness: parse_frontmatter_to_map on the Empty of a text without frontmatter
C6_Witness ==
    /\ spc = "parsed"
    /\ markdown = <<"x">>
    /\ front = Empty
    /\ decoded.fn = "parse_frontmatter_to_map"
    /\ decoded.res = ErrFrontmatterParse("markdown file is missing header")

(***************************************************************************)
(* Properties of load_frontmatter (LoadSpec)                               *)
(***************************************************************************)
\* the file's text holds a frontmatter block that is not blank
HasFrontmatterBlock(T) ==
    \E f \in Formats :
        /\ HasOpen(T, f.open)
        /\ HasClose(T, f.close)
        /\ ~AllWhitespace(Between(T, FirstClose(T, f.close)))

\* the entry load_frontmatter owes a file, from that file alone
OwnEntry(mdp) ==
    [path |-> mdp.path, rel_path |-> mdp.rel_path,
     frontmatter |-> parse_frontmatter(split_markdown(mdp.text)[1], mdp.decode)]

\* C7: over readable files a decode failure never aborts the batch: the call
\* returns Ok with one entry per file, in input order, each with the file's own
\* path, relative path and result, decided by that file alone
C7_DecodeFailureNeverAbortsBatch ==
    /\ (lres \in {"Ok", "Err"} /\ \A i \in 1..Len(files) : files[i].readable)
           => lres = "Ok"
    /\ lres = "Ok" => Len(loaded) = Len(files)
    /\ lres \in {"running", "Ok"}
           => /\ Len(loaded) = lix
              /\ \A i \in 1..Len(loaded) :
                    /\ loaded[i] = OwnEntry(files[i])
                    /\ loaded[i].frontmatter.tag =
                          IF HasFrontmatterBlock(files[i].text) /\ files[i].decode # "error"
                          THEN "Ok" ELSE "Err"
                    /\ loaded[i].frontmatter.tag = "Err"
                          => loaded[i].frontmatter.error = "FrontmatterParse"

\* C7 witness: a file whose frontmatter does not decode, then one that decodes:
\* both entries are returned
C7_Witness ==
    /\ lres = "Ok"
    /\ Len(files) = 2
    /\ HasFrontmatterBlock(files[1].text) /\ files[1].decode = "error"
    /\ loaded[1].rel_path = <<"a">> /\ loaded[1].frontmatter.tag = "Err"
    /\ loaded[2].rel_path = <<"b">> /\ loaded[2].frontmatter = Ok(<<"x">>)

(***************************************************************************)
(* Properties of generate_toc_html (TocSpec)                               *)
(***************************************************************************)
CountKind(seq, kind) == Cardinality({i \in 1..Len(seq) : seq[i].kind = kind})
\* groups open after the pieces of seq
OpenGroups(seq) == CountKind(seq, "<div>") - CountKind(seq, "</div>")

\* the headings the toc takes, in order
IncludedHeadings ==
    LET Keep(h) == 1 <= h.level /\ h.level <= max_depth
    IN  SelectSeq(headings, Keep)

\* C8: the toc is well nested: never more groups closed than opened, each item
\* emitted with as many groups open as its heading's level, and at the end
\* every group closed
C8_TocWellNested ==
    /\ \A n \in 0..Len(html) : OpenGroups(SubSeq(html, 1, n)) >= 0
    /\ \A n \in 1..Len(html) :
          html[n].kind = "<p>"
              => LET j == CountKind(SubSeq(html, 1, n), "<p>")
                 IN  /\ j <= Len(IncludedHeadings)
                     /\ OpenGroups(SubSeq(html, 1, n - 1)) = IncludedHeadings[j].level
    /\ tpc = "done"
          => /\ OpenGroups(html) = 0
             /\ CountKind(html, "<p>") = Len(IncludedHeadings)

\* C8 witness: levels [1,2,2,1] give open, item, open, item, item, close, item, close
C8_Witness ==
    /\ tpc = "done"
    /\ max_depth = 4
    /\ [i \in 1..Len(headings) |-> headings[i].level] = <<1, 2, 2, 1>>
    /\ [i \in 1..Len(html) |-> html[i].kind]
          = <<"<div>", "<p>", "<div>", "<p>", "<p>", "</div>", "<p>", "</div>">>

(***************************************************************************)
(* Properties of markdown_to_html (MdSpec)                                 *)
(***************************************************************************)
\* the twelve characters "<!-- toc -->" stand at offset k of s
MarkerAt(s, k) ==
    /\ k >= 0
    /\ k + 12 <= Len(s)
    /\ SubSeq(s, k + 1, k + 12) = <<"<", "!", "-", "-", " ", "t", "o", "c", " ", "-", "-", ">">>
MarkerOffsets(s) == {k \in 0..Len(s) : MarkerAt(s, k)}
HasMarker(s) == MarkerOffsets(s) # {}

\* a raw-html event among the first n parsed events holds the marker
MarkerSeen(n) == \E i \in 1..n : parsed[i].tag = "Html" /\ HasMarker(parsed[i].str)

C9_TocIffMarkerState ==
    /\ mpc = "map" => (enable_toc <=> MarkerSeen(Len(events)))
    /\ mpc = "done" => (toc.some <=> MarkerSeen(Len(parsed)))

\* C9: the toc is Some exactly when a raw-html event of the parsed body holds
\* the marker; the flag is sticky: once set, no later event clears it
C9_TocIffMarkerAndFlagSticky ==
    /\ []C9_TocIffMarkerState
    /\ [][enable_toc => enable_toc']_vars

\* C9 witness: the marker in the first event, a raw-html event without it
\* later, and a toc at the end
C9_Witness ==
    /\ mpc = "done"
    /\ Len(parsed) >= 2
    /\ parsed[1].tag = "Html" /\ HasMarker(parsed[1].str)
    /\ parsed[Len(parsed)].tag = "Html" /\ ~HasMarker(parsed[Len(parsed)].str)
    /\ toc.some

\* C10 as stated: no raw-html event handed to the html emitter holds the marker
C10_NoMarkerInFinalEvents ==
    mpc = "done"
        => \A i \in 1..Len(events) : events[i].tag = "Html" => ~HasMarker(events[i].str)

\* C10 amended: only the first occurrence of the marker in a raw-html event is
\* removed: the final markup is the parsed markup with the twelve characters of
\* its first occurrence cut out, and unchanged without one; so a final
\* raw-html event holds the marker only where the parsed markup held it at two
\* offsets or the cut joins text that forms it; the <h id> events put in for
\* headings never hold it
C10_FirstMarkerOccurrenceRemoved ==
    mpc = "done"
        => /\ Len(events) = Len(parsed)
           /\ \A i \in 1..Len(parsed) :
                 LET old == parsed[i].str
                     new == events[i].str
                 IN  /\ (parsed[i].tag = "Html" /\ ~HasMarker(old)) => events[i] = parsed[i]
                     /\ (parsed[i].tag = "Html" /\ HasMarker(old))
                           => \E k \in MarkerOffsets(old) :
                                 /\ \A j \in MarkerOffsets(old) : k <= j
                                 /\ events[i].tag = "Html"
                                 /\ new = SubSeq(old, 1, k) \o SubSeq(old, k + 13, Len(old))
                                 /\ HasMarker(new)
                                       => \/ Cardinality(MarkerOffsets(old)) >= 2
                                          \/ \E j \in (k - 11)..(k - 1) : MarkerAt(new, j)
                     /\ (parsed[i].tag # "Html" /\ events[i].tag = "Html") => ~HasMarker(new)

\* C10 witness: a raw-html event with the marker twice keeps the second one
C10_Witness ==
    /\ mpc = "done"
    /\ \E i \in 1..Len(parsed) :
          /\ parsed[i] = Html(TOC_FLAG \o TOC_FLAG)
          /\ events[i] = Html(TOC_FLAG)

(***************************************************************************)
(* Claims on fix_headings over any slice of events (FixSpec)               *)
(***************************************************************************)
FixDone == fpc = "done"

\* the event at the 0-based index i of the slice passed in, and of the slice
\* fix_headings leaves behind
EvIn(i) == fin[i + 1]
EvOut(i) == fevents[i + 1]
FixIndexes == 0..(Len(fin) - 1)

IsStartHeading(e) == e.tag = "StartHeading"
IsEndHeading(e) == e.tag = "EndHeading"
IsText(e) == e.tag = "Text"

\* the headings returned whose start index is i
EmittedAt(i) == {n \in 1..Len(fheadings) : fheadings[n].index[1] = i}

\* a heading-start at i, a text event next, then a heading-end of another level
MismatchedAt(i) ==
    /\ i + 2 \in FixIndexes
    /\ IsStartHeading(EvIn(i))
    /\ IsText(EvIn(i + 1))
    /\ IsEndHeading(EvIn(i + 2))
    /\ EvIn(i + 2).level # EvIn(i).level

\* the heading-ends of level l after index i
LaterEnds(i, l) ==
    {k \in FixIndexes : k > i /\ IsEndHeading(EvIn(k)) /\ EvIn(k).level = l}

Min(S) == CHOOSE x \in S : \A y \in S : x <= y

MdFixed == mpc = "done" /\ enable_toc

\* the parsed event at a 0-based index, and the event handed to push_html
MdIn(i) == parsed[i + 1]
MdOut(i) == events[i + 1]
MdIndexes == 0..(Len(parsed) - 1)

\* the text events strictly between the indexes i and k
MdTextsBetween(i, k) == {m \in MdIndexes : i < m /\ m < k /\ IsText(MdIn(m))}

\* the index of the heading-end that closes the heading started at i
MdEndOf(i) == Min({k \in MdIndexes : k > i /\ IsEndHeading(MdIn(k))})

MdEmittedAt(i) == {n \in 1..Len(md_headings) : md_headings[n].index[1] = i}

\* C12 as stated: a Heading is emitted only for a heading whose start and end
\* have the same level and exactly one text event between them; a heading
\* with two or more text events is left out and its start is not rewritten.
C12_OnlySingleTextHeadingsEmitted ==
    MdFixed =>
        /\ \A n \in 1..Len(md_headings) :
              LET h == md_headings[n]
              IN  /\ MdIn(h.index[1]) = StartHeading(h.level)
                  /\ MdIn(h.index[3]) = EndHeading(h.level)
                  /\ Cardinality(MdTextsBetween(h.index[1], h.index[3])) = 1
        /\ \A i \in MdIndexes :
              (IsStartHeading(MdIn(i)) /\ Cardinality(MdTextsBetween(i, MdEndOf(i))) >= 2)
                  => MdEmittedAt(i) = {} /\ MdOut(i) = MdIn(i)

\* C12 amended: a Heading's start and end have the same level, its text is the
\* first text event after the start and its end the first heading-end of
\* that level after the text, however many events lie between; a heading
\* with two or more text events that the scan meets idle (the first block) is
\* emitted with its first text event as text, and its start is rewritten.
C12_FirstTextEventIsTheHeadingText ==
    MdFixed =>
        /\ \A n \in 1..Len(md_headings) :
              LET h == md_headings[n]
                  i == h.index[1]
                  j == h.index[2]
                  k == h.index[3]
              IN  /\ MdIn(i) = StartHeading(h.level)
                  /\ MdIn(k) = EndHeading(h.level)
                  /\ j = Min({m \in MdIndexes : m > i /\ IsText(MdIn(m))})
                  /\ k = Min({m \in MdIndexes : m > j /\ MdIn(m) = EndHeading(h.level)})
                  /\ h.text = MdIn(j).str
                  /\ h.slug = slugify_heading_for_anchor(MdIn(j).str)
        /\ (/\ Len(parsed) > 0
            /\ IsStartHeading(MdIn(0))
            /\ Cardinality(MdTextsBetween(0, MdEndOf(0))) >= 2)
              => /\ Len(md_headings) >= 1
                 /\ md_headings[1].index = <<0, 1, MdEndOf(0)>>
                 /\ md_headings[1].text = MdIn(1).str
                 /\ MdOut(0) = Html(html_start_element(md_headings[1]))

C12_Witness ==
    /\ MdFixed
    /\ Len(parsed) > 0
    /\ IsStartHeading(MdIn(0))
    /\ Cardinality(MdTextsBetween(0, MdEndOf(0))) >= 2
    /\ Len(md_headings) >= 1
    /\ md_headings[1].index[1] = 0
    /\ md_headings[1].slug = <<"a">>

\* heading-starts at i and i2 in a row: no heading-start and no heading-end
\* between them
StartsInARow(i, i2) ==
    /\ i \in FixIndexes
    /\ i2 \in FixIndexes
    /\ i < i2
    /\ IsStartHeading(EvIn(i))
    /\ IsStartHeading(EvIn(i2))
    /\ \A m \in FixIndexes :
          (i < m /\ m < i2) => ~IsStartHeading(EvIn(m)) /\ ~IsEndHeading(EvIn(m))

\* the headings returned that end after index i, in the order emitted
EmittedAfter(i) == {n \in 1..Len(fheadings) : fheadings[n].index[3] > i}

C16_OnlyStartIndexesRewritten ==
    /\ Len(fevents) = Len(fin)
    /\ FixDone =>
          /\ \A n \in 1..Len(fheadings) :
                LET h == fheadings[n]
                IN  /\ h.index[1] \in FixIndexes
                    /\ EvOut(h.index[1]) =
                          Html(<<"<", "h">> \o Decimal(h.level)
                               \o <<" ", "i", "d", "=", "\"">> \o h.slug \o <<"\"", ">">>)
          /\ \A i \in FixIndexes : EmittedAt(i) = {} => EvOut(i) = EvIn(i)
          /\ \A n \in 1..Len(fheadings) :
                /\ EvOut(fheadings[n].index[2]) = EvIn(fheadings[n].index[2])
                /\ EvOut(fheadings[n].index[3]) = EvIn(fheadings[n].index[3])

C16_Witness ==
    /\ FixDone
    /\ Len(fheadings) = 1
    /\ fheadings[1].level = 2
    /\ fheadings[1].slug = <<"b", "-", "c">>
    /\ fheadings[1].index[1] > 0
    /\ fevents # fin
    /\ \E i \in FixIndexes : IsStartHeading(EvIn(i)) /\ EmittedAt(i) = {}

(***************************************************************************)
(* Claims on slugify_heading_for_anchor (SlugSpec)                         *)
(***************************************************************************)
IsAlnum(c) == c \in Range(LowerCase) \cup Range(UpperCase) \cup Range(DigitChars)
ToLower(c) == IF c \in Range(UpperCase) THEN LowerCase[IndexOf(UpperCase, c)] ELSE c

\* positions of the alphanumerics of the input, positions of the characters
\* of the output that are no hyphen
AlnumPositions(s) == {i \in 1..Len(s) : IsAlnum(s[i])}
NonHyphenPositions(s) == {i \in 1..Len(s) : s[i] # "-"}

\* the n-th smallest element of a set of positions
Nth(S, n) == CHOOSE x \in S : Cardinality({y \in S : y <= x}) = n

\* the examples of test_slugify over ASCII
SlugExamples ==
    /\ slugify_heading_for_anchor(<<"a", " ", "b", " ", "c">>) = <<"a", "-", "b", "-", "c">>
    /\ slugify_heading_for_anchor(<<" ", " ", "a", " ", " ">>) = <<"a">>
    /\ slugify_heading_for_anchor(<<"-", "a", "-", "b", "-">>) = <<"a", "-", "b">>
    /\ slugify_heading_for_anchor(<<"a", "_", "_", "b">>) = <<"a", "-", "b">>
    /\ slugify_heading_for_anchor(<<"\t", "a", "*", "/", "+", "(", ")", "b">>) = <<"a", "-", "b">>
    /\ slugify_heading_for_anchor(<<"a", ".", "b">>) = <<"a", "-", "b">>
    /\ slugify_heading_for_anchor(<<"a", "-", "b">>) = <<"a", "-", "b">>

\* C14: the slug of an ASCII text is a function of the text; it holds only
\* lowercase alphanumerics and hyphens, does not start or end with a hyphen,
\* has no two hyphens in a row, holds the alphanumerics of the text in order
\* and in lower case, and holds exactly one hyphen for each run of other
\* characters between two alphanumerics (none between adjacent alphanumerics).
C14_SlugShape ==
    slpc = "done" =>
        LET A == AlnumPositions(sin)
            P == NonHyphenPositions(sout)
            n == Len(sout)
        IN  /\ sout = slugify_heading_for_anchor(sin)
            /\ \A p \in 1..n : sout[p] \in Range(LowerCase) \cup Range(DigitChars) \cup {"-"}
            /\ n > 0 => sout[1] # "-" /\ sout[n] # "-"
            /\ \A p \in 1..(n - 1) : ~(sout[p] = "-" /\ sout[p + 1] = "-")
            /\ Cardinality(P) = Cardinality(A)
            /\ \A m \in 1..Cardinality(A) : sout[Nth(P, m)] = ToLower(sin[Nth(A, m)])
            /\ \A m \in 1..(Cardinality(A) - 1) :
                  Nth(P, m + 1) - Nth(P, m) = IF Nth(A, m + 1) = Nth(A, m) + 1 THEN 1 ELSE 2
            /\ SlugExamples

C14_Witness ==
    /\ slpc = "done"
    /\ sin = <<"a", "_", "*", "Z">>
    /\ sout = <<"a", "-", "z">>

(***************************************************************************)
(* Claims on write_markdown (RoundSpec)                                    *)
(***************************************************************************)
\* C15: round trip: the document write_markdown writes for a record and a
\* content splits into Frontmatter::Toml with the serialized record, trimmed,
\* as payload, which decodes to the record, and a body that is the content
\* trimmed.
C15_WriteSplitRoundTrip ==
    /\ wpc \in {"split", "parsed"} =>
          /\ wfront = Toml(Trim(toml_to_string(wdata)))
          /\ wbody = Trim(wcontent)
    /\ wpc = "parsed" =>
          /\ wdecoded.tag = "Ok"
          /\ toml_from_str(wdecoded.value) = TomlTable(wdata)

\* the items of a table of contents, and the emitted headings it lists
TocItems(t) == SelectSeq(t, LAMBDA piece : piece.kind = "<p>")
TocHeadings(hs) == SelectSeq(hs, LAMBDA h : 1 <= h.level /\ h.level <= MAX_TOC_DEPTH)

\* C17: a table of contents that was asked for has one item for each emitted
\* Heading of level 1 to 4, in document order, that links to the heading's
\* slug; emitted Headings of level 5 or 6 add no item and no open or close
\* marker (the table is the one built from the other headings alone), yet
\* their start events carry an id as well.
C17_TocListsLevelsUpToMaxDepth ==
    MdFixed =>
        LET items == TocItems(toc.value)
            listed == TocHeadings(md_headings)
        IN  /\ toc.some
            /\ Len(items) = Len(listed)
            /\ \A n \in 1..Len(listed) :
                  /\ items[n].href = listed[n].slug
                  /\ items[n].text = listed[n].text
            /\ \A n \in 1..(Len(listed) - 1) : listed[n].index[1] < listed[n + 1].index[1]
            /\ toc.value = generate_toc_html(listed, MAX_TOC_DEPTH)
            /\ \A n \in 1..Len(md_headings) :
                  MdOut(md_headings[n].index[1]) = Html(html_start_element(md_headings[n]))

C17_Witness ==
    /\ MdFixed
    /\ Len(md_headings) = 2
    /\ md_headings[1].level = 5
    /\ md_headings[2].level = 2
    /\ Len(TocItems(toc.value)) = 1
    /\ MdOut(md_headings[1].index[1]).str = <<"<", "h", "5", " ", "i", "d", "=", "\"", "a", "-", "b", "\"", ">">>

\* the parsed event with the one rewrite that does not depend on the marker:
\* an empty link destination becomes "#"
LinkFixed(e) == IF e.tag = "StartLink" /\ e.str = <<>> THEN StartLink(<<"#">>) ELSE e

\* the raw-html events of the document that hold the marker
MarkerEvents == {i \in MdIndexes : MdIn(i).tag = "Html" /\ Contains(MdIn(i).str, TOC_FLAG)}

\* C20: ids are attached only when a table of contents is asked for.  With no
\* marker in any raw-html event, the events handed to the html emitter are the
\* parsed events but for the empty link destinations made "#": every
\* heading-start is still a plain heading-start, no Heading is collected and
\* no table is returned.  With the marker, the start of every collected
\* Heading is rewritten, be the marker before or after the heading.
C20_IdsOnlyWithToc ==
    mpc = "done" =>
        /\ MarkerEvents = {} =>
              /\ ~enable_toc
              /\ toc = None
              /\ md_headings = <<>>
              /\ Len(events) = Len(parsed)
              /\ \A i \in MdIndexes : MdOut(i) = LinkFixed(MdIn(i))
              /\ \A i \in MdIndexes : IsStartHeading(MdIn(i)) => MdOut(i) = MdIn(i)
        /\ MarkerEvents # {} =>
              /\ enable_toc
              /\ md_headings = fix_headings([i \in 1..Len(parsed) |-> map_event(parsed[i])]).headings
              /\ \A n \in 1..Len(md_headings) :
                    LET h == md_headings[n]
                    IN  /\ IsStartHeading(MdIn(h.index[1]))
                        /\ MdOut(h.index[1]) = Html(html_start_element(h))

\* a document without the marker: a heading with text stays plain, an empty
\* link destination is made "#"
C20_Witness ==
    /\ mpc = "done"
    /\ MarkerEvents = {}
    /\ \E i \in MdIndexes : IsStartHeading(MdIn(i)) /\ IsText(MdIn(i + 1)) /\ MdOut(i) = MdIn(i)
    /\ \E i \in MdIndexes : MdOut(i) # MdIn(i)

\* a document with the marker between two headings, both rewritten
C20_MarkerBetweenHeadings ==
    /\ mpc = "done"
    /\ Len(md_headings) = 2
    /\ \E m \in MarkerEvents :
          /\ md_headings[1].index[3] < m
          /\ m < md_headings[2].index[1]
    /\ MdOut(md_headings[1].index[1]).tag = "Html"
    /\ MdOut(md_headings[2].index[1]).tag = "Html"

\* C19: the start, the text and the end of every Heading collected belong to
\* one heading: the index triple (i, j, k) has i < j < k, event i is a
\* heading-start of the Heading's level, event j a text event, event k a
\* heading-end of that level, and no heading-start or heading-end lies
\* strictly between i and k.
C19_HeadingTripleIsOneHeading ==
    MdFixed =>
        \A n \in 1..Len(md_headings) :
            LET h == md_headings[n]
                i == h.index[1]
                j == h.index[2]
                k == h.index[3]
            IN  /\ i < j /\ j < k
                /\ MdIn(i) = StartHeading(h.level)
                /\ IsText(MdIn(j))
                /\ MdIn(k) = EndHeading(h.level)
                /\ \A m \in MdIndexes :
                      (i < m /\ m < k) => ~IsStartHeading(MdIn(m)) /\ ~IsEndHeading(MdIn(m))

(***************************************************************************)
(* Claims on the Renderer dict (RenderSpec)                                *)
(***************************************************************************)
RECURSIVE LatestWrite(_, _)
\* what the calls of the log, read from the newest back, leave for the key:
\* the value of the last set, set_from or set_vars that holds the key, or
\* nothing after a remove of the key or a set_vars without it
LatestWrite(log, key) ==
    IF log = <<>> THEN None
    ELSE LET e == log[Len(log)]
             earlier == SubSeq(log, 1, Len(log) - 1)
         IN  CASE e.op = "set" ->
                    IF e.key = key THEN Some(e.val) ELSE LatestWrite(earlier, key)
               [] e.op = "remove" ->
                    IF e.key = key THEN None ELSE LatestWrite(earlier, key)
               [] e.op = "set_from" ->
                    IF key \in DOMAIN e.map THEN Some(e.map[key]) ELSE LatestWrite(earlier, key)
               [] e.op = "set_vars" ->
                    IF key \in DOMAIN e.map THEN Some(e.map[key]) ELSE None

\* the toc flag is in a raw-html event of the markdown of write_page_html
DocHasMarker == \E i \in 1..Len(rdoc) : rdoc[i].tag = "Html" /\ Contains(rdoc[i].str, TOC_FLAG)

\* what the caller's side holds for the key in the last render: the value of
\* the map passed, or the content and toc write_page_html inserts
CallerValue(key) ==
    IF rop = "write_page_html" /\ key = "content" THEN Some("html.content")
    ELSE IF rop = "write_page_html" /\ key = "toc" /\ DocHasMarker THEN Some("html.toc")
    ELSE IF key \in DOMAIN rarg THEN Some(rarg[key])
    ELSE None

Rendered == rop \in {"render", "write_page_html"}

\* C18: the data the template gets is the caller's map overlaid with the
\* renderer dict: for each key the latest value written to the dict by set,
\* set_from or set_vars wins over the caller's value (content and toc of
\* write_page_html included), a key removed, or dropped by set_vars, shows the
\* caller's value again, a key on neither side is absent; and render and
\* write_page_html leave the dict as it was.
C18_RendererDictOverlay ==
    /\ [](Rendered =>
            \A key \in RenderKeys :
                LET mine == LatestWrite(rlog, key)
                    theirs == CallerValue(key)
                IN  IF mine.some THEN key \in DOMAIN rdata /\ rdata[key] = mine.value
                    ELSE IF theirs.some THEN key \in DOMAIN rdata /\ rdata[key] = theirs.value
                    ELSE key \notin DOMAIN rdata)
    /\ [][(rcount' # rcount /\ rop' \in {"render", "write_page_html"}) => rvars' = rvars]_vars

\* the renderer's content, set twice, wins over the html of write_page_html
\* with its latest value, next to the generated toc
C18_Witness ==
    /\ rop = "write_page_html"
    /\ DocHasMarker
    /\ rlog = <<LogEntry("set", "content", "r1", EmptyMap),
                LogEntry("set", "content", "r2", EmptyMap)>>
    /\ rarg = Map1("title", "c1")
    /\ rdata = [k \in RenderKeys |->
                  IF k = "content" THEN "r2" ELSE IF k = "toc" THEN "html.toc" ELSE "c1"]

====
